---- MODULE Spec2Model ----
(***************************************************************************)
(* Model of ai-service/app/main.py: the FastAPI chat backend.              *)
(*                                                                         *)
(* Text is modelled as a sequence of tokens.  A token is either a single   *)
(* character ("a", " ", "\n") or one fixed literal of the source, written  *)
(* as an ASCII tag in angle brackets (the Georgian literals of main.py are *)
(* not reproduced byte for byte; each distinct literal has its own tag).   *)
(* Concatenation of Python strings is \o on token sequences.               *)
(*                                                                         *)
(* The server runs one task per inbound request.  The model keeps one      *)
(* request slot per route, so a request on /api/chat and a request on      *)
(* /chat can be in flight at the same time and interleave at the one       *)
(* external call of the handler.                                           *)
(***************************************************************************)
EXTENDS Integers, Sequences, FiniteSets, TLC

VARIABLES
    GEMINI_API_KEY,   \* os.getenv("GEMINI_API_KEY") at import time
    rag_service,      \* module global: "RagService" or "None"
    pc,               \* per route: position of the request task
    request,          \* per route: the ChatRequest being handled
    calls,            \* per route: model.generate_content invocations so far
    prompt,           \* per route: full_prompt handed to the Model Client
    result,           \* per route: what the Model Client call produced
    history_payload,  \* per route: local of chat(), the history as dicts
    printed,          \* per route: the line the handler printed, if any
    response,         \* per route: HTTP status and JSON body sent back
    health_response   \* last body returned by GET /health

vars == <<GEMINI_API_KEY, rag_service, pc, request, calls, prompt, result,
          history_payload, printed, response, health_response>>

----------------------------------------------------------------------------
(* Bounds of the model *)

MaxMsgLen == 1
MaxHist == 2

----------------------------------------------------------------------------
(* Input universes *)

Routes == {"/api/chat", "/chat"}

Whitespace == {" ", "\t", "\n"}

MsgChars == {" ", "a"}

Roles == {"user", "assistant"}

Contents == {<<"b">>}

RECURSIVE SeqsUpTo(_, _)
SeqsUpTo(S, n) ==
    IF n = 0 THEN {<<>>}
    ELSE LET shorter == SeqsUpTo(S, n - 1)
         IN  shorter \cup {Append(s, x) : s \in shorter, x \in S}

ConversationMessage == [role : Roles, content : Contents]

ChatRequest ==
    [message : SeqsUpTo(MsgChars, MaxMsgLen),
     conversation_history : SeqsUpTo(ConversationMessage, MaxHist)]

\* What self.model.generate_content(full_prompt) followed by response.text
\* can produce: a response with text, a falsy response, a response whose
\* text is empty, or an exception carrying some text.
ModelTexts == {<<"h", "i">>}

ExceptionTexts == {<<"k", "e", "y">>, <<"4", "2", "9">>}

ModelOutcomes ==
    [kind : {"text"}, text : ModelTexts]
    \cup {[kind |-> "none", text |-> <<>>], [kind |-> "empty", text |-> <<>>]}
    \cup [kind : {"raise"}, text : ExceptionTexts]

NoOutcome == [kind |-> "pending", text |-> <<>>]

----------------------------------------------------------------------------
(* Literals of main.py *)

ERROR_MESSAGES ==
    [empty_query |-> <<"<please write your question>">>,
     service_unavailable |-> <<"<service temporarily unavailable>">>,
     processing_error |-> <<"<error while processing>">>]

MODEL_NAME == <<"gemini-2.5-flash">>

FALLBACK_ANSWER == <<"<could not process this query, try rephrasing>">>

SOURCE_CONTENT == <<"<answer generated by the Gemini model from history and query>">>

SOURCE_SECTION == <<"model: gemini-2.5-flash">>

HISTORY_PLACEHOLDER == <<"<em dash>">>

SYSTEM_INSTRUCTION == <<"<system instruction>">>

HISTORY_HEADER == <<"<conversation history:>", "\n">>

QUERY_HEADER == <<"<now the user's new question:>", "\n", "User", ": ">>

CLOSING_INSTRUCTION == <<"<please answer in detail and clearly in Georgian>">>

----------------------------------------------------------------------------
(* Startup: RagService.__init__ and the module-level try/except *)

EnvValues == {"<unset>", "", "AIza-key"}

\* RagService(): raises RuntimeError when the key is missing or empty,
\* otherwise configures genai and holds the GenerativeModel.
RagServiceInit(api_key) ==
    IF api_key = "<unset>" \/ api_key = ""
    THEN [raised |-> TRUE, value |-> "None"]
    ELSE [raised |-> FALSE, value |-> "RagService"]

\* try: rag_service = RagService()  except Exception: rag_service = None
ConstructRagService(api_key) ==
    LET made == RagServiceInit(api_key)
    IN  IF made.raised THEN "None" ELSE made.value

----------------------------------------------------------------------------
(* str.strip() and the blank test of the handler *)

RECURSIVE LStrip(_)
LStrip(s) ==
    IF s = <<>> THEN <<>>
    ELSE IF Head(s) \in Whitespace THEN LStrip(Tail(s)) ELSE s

RECURSIVE RStrip(_)
RStrip(s) ==
    IF s = <<>> THEN <<>>
    ELSE IF s[Len(s)] \in Whitespace THEN RStrip(SubSeq(s, 1, Len(s) - 1)) ELSE s

Strip(s) == RStrip(LStrip(s))

\* variant: the blank test without the strip()
IsBlankNoStrip(message) == message = <<>>

\* not request.message or not request.message.strip()
IsBlank(message) == message = <<>> \/ Strip(message) = <<>>

----------------------------------------------------------------------------
(* Prompt Builder: RagService.generate_response, lines 76-95 *)

\* prefix = "User" if msg["role"] == "user" else "Assistant"
Prefix(role) == IF role = "user" THEN "User" ELSE "Assistant"

\* f"{prefix}: {msg['content']}"
HistoryLine(msg) == <<Prefix(msg.role), ": ">> \o msg.content

\* the for loop appending one line per message, in order
RECURSIVE HistoryTextLines(_)
HistoryTextLines(history) ==
    IF history = <<>> THEN <<>>
    ELSE <<HistoryLine(Head(history))>> \o HistoryTextLines(Tail(history))

\* "\n".join(lines)
RECURSIVE JoinLines(_)
JoinLines(lines) ==
    IF lines = <<>> THEN <<>>
    ELSE IF Len(lines) = 1 THEN Head(lines)
    ELSE Head(lines) \o <<"\n">> \o JoinLines(Tail(lines))

\* variant: an empty history renders as the empty string
HistoryTextNoPlaceholder(history) == JoinLines(HistoryTextLines(history))

\* history_text = "\n".join(history_text_lines) if history_text_lines else "—"
HistoryText(history) ==
    LET history_text_lines == HistoryTextLines(history)
    IN  IF history_text_lines # <<>> THEN JoinLines(history_text_lines)
        ELSE HISTORY_PLACEHOLDER

\* full_prompt
FullPrompt(query, history) ==
    SYSTEM_INSTRUCTION \o <<"\n", "\n">>
    \o HISTORY_HEADER \o HistoryText(history) \o <<"\n", "\n">>
    \o QUERY_HEADER \o query \o <<"\n", "\n">>
    \o CLOSING_INSTRUCTION

----------------------------------------------------------------------------
(* RagService.generate_response after the call, lines 102-129 *)

\* variant: the test for usable text inverted
AnswerTextInverted(outcome) ==
    IF outcome.kind # "none" /\ outcome.text # <<>>
    THEN FALLBACK_ANSWER
    ELSE outcome.text

\* answer_text: the fallback when "not response or not response.text"
AnswerText(outcome) ==
    IF outcome.kind = "none" \/ outcome.text = <<>>
    THEN FALLBACK_ANSWER
    ELSE outcome.text

\* variant: has_history only from the second message on
MetadataOffByOne(history) ==
    [model |-> MODEL_NAME, has_history |-> (Len(history) > 1)]

\* metadata = {"model": ..., "has_history": bool(history)}
Metadata(history) ==
    [model |-> MODEL_NAME, has_history |-> (history # <<>>)]

SourceDocuments == <<[content |-> SOURCE_CONTENT, section |-> SOURCE_SECTION]>>

\* variant: response.text read without the "not response" test, so a call
\* that yields no usable text ends in the except branch
GenerateResponseNoTextRaises(history, outcome) ==
    IF outcome.kind \in {"raise", "none", "empty"}
    THEN [raised |-> TRUE,
          exc |-> <<"Gemini error: ">> \o outcome.text,
          value |-> [answer |-> <<>>, source_documents |-> <<>>,
                     metadata |-> Metadata(history)]]
    ELSE [raised |-> FALSE,
          exc |-> <<>>,
          value |-> [answer |-> AnswerText(outcome),
                     source_documents |-> SourceDocuments,
                     metadata |-> Metadata(history)]]

\* The try/except around the call: a dict on return, RuntimeError on raise.
GenerateResponse(history, outcome) ==
    IF outcome.kind = "raise"
    THEN [raised |-> TRUE,
          exc |-> <<"Gemini error: ">> \o outcome.text,
          value |-> [answer |-> <<>>, source_documents |-> <<>>,
                     metadata |-> Metadata(history)]]
    ELSE [raised |-> FALSE,
          exc |-> <<>>,
          value |-> [answer |-> AnswerText(outcome),
                     source_documents |-> SourceDocuments,
                     metadata |-> Metadata(history)]]

----------------------------------------------------------------------------
(* The chat handler, lines 159-214 *)

HTTPException(status_code, detail) ==
    [status |-> status_code, body |-> [detail |-> detail]]

NoResponse == [status |-> 0, body |-> [detail |-> <<>>]]

NoRequest == [message |-> <<>>, conversation_history |-> <<>>]

\* variant: the message validated before the availability check
ChatGuardsValidateFirst(service, req) ==
    IF IsBlank(req.message)
    THEN HTTPException(400, ERROR_MESSAGES.empty_query)
    ELSE IF service = "None"
    THEN HTTPException(503, ERROR_MESSAGES.service_unavailable)
    ELSE NoResponse

\* Steps 1 and 2 of chat(): the two raises that sit before the try block.
\* NoResponse when neither fires.
ChatGuards(service, req) ==
    IF service = "None"
    THEN HTTPException(503, ERROR_MESSAGES.service_unavailable)
    ELSE IF IsBlank(req.message)
    THEN HTTPException(400, ERROR_MESSAGES.empty_query)
    ELSE NoResponse

\* history_payload = [{"role": msg.role, "content": msg.content} for msg in ...]
HistoryPayload(conversation_history) ==
    [i \in DOMAIN conversation_history |->
        [role |-> conversation_history[i].role,
         content |-> conversation_history[i].content]]

\* for i, doc in enumerate(raw.get("source_documents", [])): Source(id=i, ...)
Sources(source_documents) ==
    [i \in DOMAIN source_documents |->
        [id |-> i - 1,
         content |-> source_documents[i].content,
         section |-> source_documents[i].section]]

\* Step 5 of chat(): the ChatResponse built from the raw dict.
ChatResponse(raw) ==
    [status |-> 200,
     body |-> [answer |-> raw.answer,
               sources |-> Sources(raw.source_documents),
               metadata |-> raw.metadata]]

\* variant: detail=str(e) in the 500
ChatOutcomeLeaksDetail(history, outcome) ==
    LET raw == GenerateResponse(history, outcome)
    IN  IF raw.raised
        THEN [printed |-> <<"Error in /api/chat: ">> \o raw.exc,
              response |-> HTTPException(500, raw.exc)]
        ELSE [printed |-> <<>>,
              response |-> ChatResponse(raw.value)]

\* What chat() does with the outcome of generate_response: the response on
\* return; on RuntimeError the printed line and the generic 500.
ChatOutcome(history, outcome) ==
    LET raw == GenerateResponse(history, outcome)
    IN  IF raw.raised
        THEN [printed |-> <<"Error in /api/chat: ">> \o raw.exc,
              response |-> HTTPException(500, ERROR_MESSAGES.processing_error)]
        ELSE [printed |-> <<>>,
              response |-> ChatResponse(raw.value)]

----------------------------------------------------------------------------
(* State machine *)

Init ==
    /\ GEMINI_API_KEY \in EnvValues
    /\ rag_service = ConstructRagService(GEMINI_API_KEY)
    /\ pc = [r \in Routes |-> "idle"]
    /\ request = [r \in Routes |-> NoRequest]
    /\ calls = [r \in Routes |-> 0]
    /\ prompt = [r \in Routes |-> <<>>]
    /\ result = [r \in Routes |-> NoOutcome]
    /\ history_payload = [r \in Routes |-> <<>>]
    /\ printed = [r \in Routes |-> <<>>]
    /\ response = [r \in Routes |-> NoResponse]
    /\ health_response = [status |-> "none", rag_service_ready |-> FALSE]

\* A POST arrives on route r with a body the schema accepts.
Receive(r, req) ==
    /\ pc[r] = "idle"
    /\ pc' = [pc EXCEPT ![r] = "received"]
    /\ request' = [request EXCEPT ![r] = req]
    /\ UNCHANGED <<GEMINI_API_KEY, rag_service, calls, prompt, result,
                   history_payload, printed, response, health_response>>

\* chat(req) run by the task of route r, from its entry to the point where
\* it either has raised one of the two early errors or sits in
\* self.model.generate_content(full_prompt).
ChatCall(r, req) ==
    /\ pc[r] = "received"
    /\ LET early == ChatGuards(rag_service, req)
       IN  IF early # NoResponse
           THEN /\ response' = [response EXCEPT ![r] = early]
                /\ pc' = [pc EXCEPT ![r] = "done"]
                /\ UNCHANGED <<calls, prompt, history_payload>>
           ELSE /\ history_payload' =
                      [history_payload EXCEPT
                          ![r] = HistoryPayload(req.conversation_history)]
                /\ prompt' = [prompt EXCEPT
                                 ![r] = FullPrompt(req.message,
                                                   history_payload'[r])]
                /\ calls' = [calls EXCEPT ![r] = @ + 1]
                /\ pc' = [pc EXCEPT ![r] = "calling"]
                /\ UNCHANGED response
    /\ UNCHANGED <<GEMINI_API_KEY, rag_service, request, result, printed,
                   health_response>>

\* POST /api/chat
Chat(r) ==
    /\ r = "/api/chat"
    /\ ChatCall(r, request[r])

\* variant: the alias forwards the message without the history
ChatAliasDropsHistory(r) ==
    /\ r = "/chat"
    /\ ChatCall(r, [request[r] EXCEPT !.conversation_history = <<>>])

\* POST /chat: return await chat(request)
ChatAlias(r) ==
    /\ r = "/chat"
    /\ ChatCall(r, request[r])

\* variant: a raising call is tried once more before giving up
ModelReturnsRetry(r, outcome) ==
    /\ pc[r] = "calling"
    /\ result' = [result EXCEPT ![r] = outcome]
    /\ IF outcome.kind = "raise" /\ calls[r] < 2
       THEN /\ calls' = [calls EXCEPT ![r] = @ + 1]
            /\ UNCHANGED <<pc, printed, response>>
       ELSE /\ LET out == ChatOutcome(history_payload[r], outcome)
               IN  /\ printed' = [printed EXCEPT ![r] = out.printed]
                   /\ response' = [response EXCEPT ![r] = out.response]
            /\ pc' = [pc EXCEPT ![r] = "done"]
            /\ UNCHANGED calls
    /\ UNCHANGED <<GEMINI_API_KEY, rag_service, request, prompt,
                   history_payload, health_response>>

\* The external call comes back (or raises) and the handler runs to its end.
ModelReturns(r, outcome) ==
    /\ pc[r] = "calling"
    /\ result' = [result EXCEPT ![r] = outcome]
    /\ LET out == ChatOutcome(history_payload[r], outcome)
       IN  /\ printed' = [printed EXCEPT ![r] = out.printed]
           /\ response' = [response EXCEPT ![r] = out.response]
    /\ pc' = [pc EXCEPT ![r] = "done"]
    /\ UNCHANGED <<GEMINI_API_KEY, rag_service, request, calls, prompt,
                   history_payload, health_response>>

\* The framework sends the response; the task and its locals are gone.
Deliver(r) ==
    /\ pc[r] = "done"
    /\ pc' = [pc EXCEPT ![r] = "idle"]
    /\ request' = [request EXCEPT ![r] = NoRequest]
    /\ calls' = [calls EXCEPT ![r] = 0]
    /\ prompt' = [prompt EXCEPT ![r] = <<>>]
    /\ result' = [result EXCEPT ![r] = NoOutcome]
    /\ history_payload' = [history_payload EXCEPT ![r] = <<>>]
    /\ printed' = [printed EXCEPT ![r] = <<>>]
    /\ response' = [response EXCEPT ![r] = NoResponse]
    /\ UNCHANGED <<GEMINI_API_KEY, rag_service, health_response>>

\* variant: readiness reported without looking at the global
HealthAlwaysReady ==
    /\ health_response' = [status |-> "ok", rag_service_ready |-> TRUE]
    /\ UNCHANGED <<GEMINI_API_KEY, rag_service, pc, request, calls, prompt,
                   result, history_payload, printed, response>>

\* GET /health
Health ==
    /\ health_response' =
          [status |-> "ok", rag_service_ready |-> (rag_service # "None")]
    /\ UNCHANGED <<GEMINI_API_KEY, rag_service, pc, request, calls, prompt,
                   result, history_payload, printed, response>>

Next ==
    \/ \E r \in Routes, req \in ChatRequest : Receive(r, req)
    \/ \E r \in Routes : Chat(r)
    \/ \E r \in Routes : ChatAlias(r)
    \/ \E r \in Routes, outcome \in ModelOutcomes : ModelReturns(r, outcome)
    \/ \E r \in Routes : Deliver(r)
    \/ Health

Spec == Init /\ [][Next]_vars

----------------------------------------------------------------------------
(* Vocabulary of the properties *)

Done(r) == pc[r] = "done"

Available == rag_service # "None"

StartupFailed == GEMINI_API_KEY \in {"<unset>", ""}

\* a message with at least one character that is not whitespace
NonBlank(message) == \E i \in DOMAIN message : message[i] \notin Whitespace

\* the tokens of needle occur, contiguously and in order, inside hay
Contains(hay, needle) ==
    \E i \in 0..(Len(hay) - Len(needle)) :
        \A j \in 1..Len(needle) : hay[i + j] = needle[j]

Tokens(text) == {text[i] : i \in DOMAIN text}

OneSyntheticSource(body) ==
    /\ Len(body.sources) = 1
    /\ body.sources[1].id = 0

----------------------------------------------------------------------------
\* C1: a finished request whose message is not blank, handled with the Model
\* Client available and the call returning non-empty text, is a 200 whose
\* answer is exactly that text and whose sources are one entry with id 0.
C1_AnswerIsModelText ==
    \A r \in Routes :
        (/\ Done(r)
         /\ NonBlank(request[r].message)
         /\ Available
         /\ result[r].kind = "text"
         /\ result[r].text # <<>>)
        => /\ response[r].status = 200
           /\ response[r].body.answer = result[r].text
           /\ OneSyntheticSource(response[r].body)

C1_Witness ==
    \E r \in Routes :
        /\ Done(r)
        /\ result[r].kind = "text"
        /\ request[r].conversation_history # <<>>
        /\ response[r].status = 200
        /\ response[r].body.answer = <<"h", "i">>

\* C2: when the Model Client call raises, the request ends in status 500
\* whose body is only the generic processing_error detail; no token of the
\* exception text, nor the text as a whole, occurs in the body.
C2_ExceptionTextNotLeaked ==
    \A r \in Routes :
        (Done(r) /\ result[r].kind = "raise")
        => /\ response[r].status = 500
           /\ DOMAIN response[r].body = {"detail"}
           /\ response[r].body.detail = <<"<error while processing>">>
           /\ Tokens(result[r].text) \cap Tokens(response[r].body.detail) = {}
           /\ ~Contains(response[r].body.detail, result[r].text)

C2_Witness ==
    \E r \in Routes :
        /\ Done(r)
        /\ result[r].kind = "raise"
        /\ Contains(printed[r], result[r].text)
        /\ response[r].status = 500

\* C3: when the Model Client failed to initialise at startup, every finished
\* chat request, blank message or not, is the 503 service_unavailable error,
\* never a 400 or a 500, and the Model Client was not invoked.
C3_UnavailableAlways503 ==
    \A r \in Routes :
        (StartupFailed /\ Done(r))
        => /\ response[r].status = 503
           /\ response[r].body = [detail |-> <<"<service temporarily unavailable>">>]
           /\ calls[r] = 0

C3_Witness ==
    \E r \in Routes :
        /\ StartupFailed
        /\ Done(r)
        /\ ~NonBlank(request[r].message)
        /\ response[r].status = 503

\* C4 as stated: a finished request whose message is empty or only
\* whitespace is always the 400 empty_query error, whatever the history.
C4_BlankAlways400 ==
    \A r \in Routes :
        (Done(r) /\ ~NonBlank(request[r].message))
        => response[r].status = 400

\* C4 amended: when the Model Client is available, a finished request whose
\* message is empty or only whitespace is the 400 empty_query error,
\* whatever the history, and the Model Client was not invoked.
C4_BlankIs400WhenAvailable ==
    \A r \in Routes :
        (Done(r) /\ Available /\ ~NonBlank(request[r].message))
        => /\ response[r].status = 400
           /\ response[r].body = [detail |-> <<"<please write your question>">>]
           /\ calls[r] = 0

C4_Witness ==
    \E r \in Routes :
        /\ Done(r)
        /\ Available
        /\ request[r].message = <<" ">>
        /\ request[r].conversation_history # <<>>
        /\ response[r].status = 400

\* C5: every ChatResponse (normal or fallback answer) has metadata with a
\* model identifier and a boolean has_history, and has_history is true
\* exactly when the request's conversation_history is non-empty.
C5_HasHistoryIffNonEmpty ==
    \A r \in Routes :
        (Done(r) /\ response[r].status = 200)
        => LET metadata == response[r].body.metadata
           IN  /\ {"model", "has_history"} \subseteq DOMAIN metadata
               /\ metadata.model = <<"gemini-2.5-flash">>
               /\ metadata.has_history \in BOOLEAN
               /\ metadata.has_history
                    <=> (Len(request[r].conversation_history) > 0)

C5_Witness ==
    /\ \E r \in Routes :
          /\ Done(r)
          /\ response[r].status = 200
          /\ result[r].kind = "text"
          /\ request[r].conversation_history = <<>>
          /\ response[r].body.metadata.has_history = FALSE
    /\ \E r \in Routes :
          /\ Done(r)
          /\ response[r].status = 200
          /\ result[r].kind = "empty"
          /\ Len(request[r].conversation_history) = 2
          /\ response[r].body.metadata.has_history = TRUE

\* C6: when the call returns without raising but with no response object or
\* with empty text, the request is a 200 whose answer is the fixed fallback
\* message, with the one synthetic source (id 0) and the metadata.
C6_NoTextIsFallbackSuccess ==
    \A r \in Routes :
        (Done(r) /\ result[r].kind \in {"none", "empty"})
        => /\ response[r].status = 200
           /\ response[r].body.answer
                = <<"<could not process this query, try rephrasing>">>
           /\ OneSyntheticSource(response[r].body)
           /\ {"model", "has_history"}
                \subseteq DOMAIN response[r].body.metadata

C6_Witness ==
    /\ \E r \in Routes :
          Done(r) /\ result[r].kind = "none" /\ response[r].status = 200
    /\ \E r \in Routes :
          Done(r) /\ result[r].kind = "empty" /\ response[r].status = 200

\* C7: GET /health answers status "ok" with rag_service_ready equal to
\* whether construction succeeded at startup; it is false exactly when
\* finished chat requests are 503; and neither the global nor a health
\* answer already given changes under any step of any chat request.
C7_HealthState ==
    /\ health_response.status \in {"none", "ok"}
    /\ health_response.status = "ok"
         => /\ health_response.rag_service_ready = ~StartupFailed
            /\ \A r \in Routes :
                  Done(r) => (health_response.rag_service_ready = FALSE
                                <=> response[r].status = 503)

C7_HealthStep ==
    /\ rag_service' = rag_service
    /\ health_response.status = "ok" => health_response' = health_response

\* C7: in every state the health answer agrees with startup and with the
\* 503s, and no step changes rag_service or a health answer already given.
C7_HealthFixedAtStartup == []C7_HealthState /\ [][C7_HealthStep]_vars

C7_Witness ==
    /\ health_response = [status |-> "ok", rag_service_ready |-> TRUE]
    /\ \E r \in Routes : Done(r) /\ response[r].status = 500
    /\ \E r \in Routes : Done(r) /\ response[r].status = 400

\* C8: a request finished on /chat and a request finished on /api/chat that
\* had the same body and the same Model Client result (text, no text,
\* exception, or no call at all) carry the same status and the same body.
C8_AliasEquivalent ==
    (/\ Done("/api/chat")
     /\ Done("/chat")
     /\ request["/chat"] = request["/api/chat"]
     /\ result["/chat"] = result["/api/chat"])
    => response["/chat"] = response["/api/chat"]

C8_Witness ==
    /\ Done("/api/chat")
    /\ Done("/chat")
    /\ request["/chat"] = request["/api/chat"]
    /\ Len(request["/chat"].conversation_history) = 2
    /\ result["/chat"] = result["/api/chat"]
    /\ result["/chat"].kind = "text"
    /\ response["/chat"].status = 200
    /\ response["/chat"] = response["/api/chat"]

\* C9: a request invokes the Model Client at most once: once exactly when
\* the client is available and the message is not blank, never when it ends
\* in 503 or 400; it has no response before it is done and exactly one of
\* the terminal outcomes when it is; a returning call of any result ends the
\* request with no further invocation, and a finished request stays as it is
\* until its response is sent.
C9_CallState ==
    \A r \in Routes :
        /\ calls[r] \in {0, 1}
        /\ pc[r] = "calling" => calls[r] = 1
        /\ pc[r] \in {"idle", "received", "calling"} => response[r].status = 0
        /\ Done(r) =>
              /\ response[r].status \in {200, 400, 500, 503}
              /\ calls[r] = 1 <=> (Available /\ NonBlank(request[r].message))
              /\ response[r].status \in {400, 503} => calls[r] = 0
              /\ response[r].status \in {200, 500} => calls[r] = 1

C9_CallStep ==
    \A r \in Routes :
        /\ (pc[r] = "calling" /\ result'[r] # result[r])
              => (pc'[r] = "done" /\ calls'[r] = calls[r])
        /\ (Done(r) /\ pc'[r] = "done")
              => (response'[r] = response[r] /\ calls'[r] = calls[r])
        /\ (Done(r) /\ pc'[r] # "done") => pc'[r] = "idle"

\* C9: every state has at most one invocation per request and a single
\* terminal outcome; no step re-invokes the client or alters a finished
\* request.
C9_AtMostOneCall == []C9_CallState /\ [][C9_CallStep]_vars

C9_Witness ==
    /\ \E r \in Routes :
          Done(r) /\ result[r].kind = "raise" /\ calls[r] = 1
    /\ \E r \in Routes :
          Done(r) /\ response[r].status = 400 /\ calls[r] = 0

\* C10: the prompt handed to the Model Client is fixed by (history, message):
\* after the fixed head comes the history block, which is the placeholder
\* when the history is empty and otherwise, per message and in order,
\* label, ": ", content, with a newline between consecutive messages (label
\* User for role user, Assistant for role assistant); then the fixed
\* "User: " lead, the message and the closing.  Two requests with the same
\* (history, message) were handed the same prompt.
Label(role) == CASE role = "user" -> "User" [] role = "assistant" -> "Assistant"

\* where message i starts inside the history block (0-based)
RECURSIVE LineOffset(_, _)
LineOffset(h, i) ==
    IF i = 1 THEN 0
    ELSE LineOffset(h, i - 1) + Len(h[i - 1].content) + 3

BlockLen(h) ==
    IF h = <<>> THEN 1
    ELSE LineOffset(h, Len(h)) + Len(h[Len(h)].content) + 2

PromptHead == <<"<system instruction>", "\n", "\n", "<conversation history:>", "\n">>

PromptTail(m) ==
    <<"\n", "\n", "<now the user's new question:>", "\n", "User", ": ">>
    \o m
    \o <<"\n", "\n", "<please answer in detail and clearly in Georgian>">>

WellFormedPrompt(p, h, m) ==
    /\ Len(p) = Len(PromptHead) + BlockLen(h) + Len(PromptTail(m))
    /\ SubSeq(p, 1, Len(PromptHead)) = PromptHead
    /\ SubSeq(p, Len(PromptHead) + BlockLen(h) + 1, Len(p)) = PromptTail(m)
    /\ LET block == SubSeq(p, Len(PromptHead) + 1, Len(PromptHead) + BlockLen(h))
       IN  IF h = <<>>
           THEN block = <<"<em dash>">>
           ELSE \A i \in DOMAIN h :
                   LET off == LineOffset(h, i)
                       c == h[i].content
                   IN  /\ block[off + 1] = Label(h[i].role)
                       /\ block[off + 2] = ": "
                       /\ SubSeq(block, off + 3, off + 2 + Len(c)) = c
                       /\ i < Len(h) => block[off + 3 + Len(c)] = "\n"

Invoked(r) == pc[r] \in {"calling", "done"} /\ calls[r] > 0

\* C10: every prompt handed to the Model Client has the layout above, and
\* equal (history, message) pairs were handed equal prompts.
C10_PromptDeterministic ==
    /\ \A r \in Routes :
          Invoked(r) => WellFormedPrompt(prompt[r],
                                         request[r].conversation_history,
                                         request[r].message)
    /\ \A r1, r2 \in Routes :
          (Invoked(r1) /\ Invoked(r2) /\ request[r1] = request[r2])
             => prompt[r1] = prompt[r2]

C10_Witness ==
    /\ Invoked("/api/chat")
    /\ Invoked("/chat")
    /\ request["/api/chat"] = request["/chat"]
    /\ request["/chat"].conversation_history
         = <<[role |-> "user", content |-> <<"b">>],
             [role |-> "assistant", content |-> <<"b">>]>>
    /\ prompt["/chat"] =
         <<"<system instruction>", "\n", "\n", "<conversation history:>", "\n",
           "User", ": ", "b", "\n", "Assistant", ": ", "b",
           "\n", "\n", "<now the user's new question:>", "\n", "User", ": ",
           "a",
           "\n", "\n", "<please answer in detail and clearly in Georgian>">>

====
